---------------------------- MODULE Spec2Model ----------------------------
(***************************************************************************)
(* Model of Set_4/SHA-1_keyed_MAC.py: the streaming SHA-1 engine           *)
(* (class Sha1Hash), the secret-prefix MAC built on it (sha1, key,         *)
(* HMAC_SHA1, check_mac) and the bit-flip driver (main).                   *)
(*                                                                         *)
(* A Python int n >= 0 is the pair <<n \div 2^16, n % 2^16>>: the second   *)
(* component is always below 2^16, the first is unbounded (Python ints     *)
(* are), so that a value of 2^32 or more, which set_registers can store,   *)
(* is representable.  A byte string is a sequence of integers 0..255.      *)
(***************************************************************************)
EXTENDS Integers, Sequences, FiniteSets, TLC

(***************************************************************************)
(* Bounds of the exploration.                                              *)
(***************************************************************************)
MaxFed == 130
MaxDataLen == 4
MaxLenMsg == 2

(***************************************************************************)
(* Python's bitwise operators ^, & and | on non-negative ints.             *)
(***************************************************************************)
RECURSIVE BitXor(_, _), BitAnd(_, _), BitOr(_, _)
BitXor(a, b) == IF a = 0 THEN b ELSE IF b = 0 THEN a
                ELSE ((a + b) % 2) + 2 * BitXor(a \div 2, b \div 2)
BitAnd(a, b) == IF a = 0 \/ b = 0 THEN 0
                ELSE ((a % 2) * (b % 2)) + 2 * BitAnd(a \div 2, b \div 2)
BitOr(a, b) == IF a = 0 THEN b ELSE IF b = 0 THEN a
               ELSE (IF a % 2 = 1 \/ b % 2 = 1 THEN 1 ELSE 0) + 2 * BitOr(a \div 2, b \div 2)

\* The three operators tabulated on nibbles, then on bytes (entry [a+1][b+1]
\* is a op b); "\o <<>>" makes each table an explicit tuple, computed once.
XorNib == [a \in 1..16 |-> [b \in 1..16 |-> BitXor(a - 1, b - 1)] \o <<>>] \o <<>>
AndNib == [a \in 1..16 |-> [b \in 1..16 |-> BitAnd(a - 1, b - 1)] \o <<>>] \o <<>>
OrNib == [a \in 1..16 |-> [b \in 1..16 |-> BitOr(a - 1, b - 1)] \o <<>>] \o <<>>
XorTab == [a \in 1..256 |-> [b \in 1..256 |->
             XorNib[((a - 1) \div 16) + 1][((b - 1) \div 16) + 1] * 16
             + XorNib[((a - 1) % 16) + 1][((b - 1) % 16) + 1]] \o <<>>] \o <<>>
AndTab == [a \in 1..256 |-> [b \in 1..256 |->
             AndNib[((a - 1) \div 16) + 1][((b - 1) \div 16) + 1] * 16
             + AndNib[((a - 1) % 16) + 1][((b - 1) % 16) + 1]] \o <<>>] \o <<>>
OrTab == [a \in 1..256 |-> [b \in 1..256 |->
            OrNib[((a - 1) \div 16) + 1][((b - 1) \div 16) + 1] * 16
            + OrNib[((a - 1) % 16) + 1][((b - 1) % 16) + 1]] \o <<>>] \o <<>>

RECURSIVE Xor16(_, _), And16(_, _), Or16(_, _)
Xor16(a, b) ==
  IF a < 65536 /\ b < 65536
  THEN XorTab[(a \div 256) + 1][(b \div 256) + 1] * 256 + XorTab[(a % 256) + 1][(b % 256) + 1]
  ELSE Xor16(a % 65536, b % 65536) + 65536 * Xor16(a \div 65536, b \div 65536)
And16(a, b) ==
  IF a < 65536 /\ b < 65536
  THEN AndTab[(a \div 256) + 1][(b \div 256) + 1] * 256 + AndTab[(a % 256) + 1][(b % 256) + 1]
  ELSE And16(a % 65536, b % 65536) + 65536 * And16(a \div 65536, b \div 65536)
Or16(a, b) ==
  IF a < 65536 /\ b < 65536
  THEN OrTab[(a \div 256) + 1][(b \div 256) + 1] * 256 + OrTab[(a % 256) + 1][(b % 256) + 1]
  ELSE Or16(a % 65536, b % 65536) + 65536 * Or16(a \div 65536, b \div 65536)

Xor(x, y) == <<Xor16(x[1], y[1]), Xor16(x[2], y[2])>>
And(x, y) == <<And16(x[1], y[1]), And16(x[2], y[2])>>
Or(x, y) == <<Or16(x[1], y[1]), Or16(x[2], y[2])>>

\* n & 0xffffffff
Mask32(n) == <<n[1] % 65536, n[2]>>
\* (n << b) & 0xffffffff, 0 < b < 32
Shl32(n, b) ==
  IF b < 16
  THEN <<((n[1] % 2^(16 - b)) * 2^b) + (n[2] \div 2^(16 - b)), (n[2] * 2^b) % 65536>>
  ELSE <<(n[2] % 2^(32 - b)) * 2^(b - 16), 0>>
\* n >> k, 0 < k < 32
Shr(n, k) ==
  IF k >= 16
  THEN LET v == n[1] \div 2^(k - 16) IN <<v \div 65536, v % 65536>>
  ELSE <<n[1] \div 2^k, (n[2] \div 2^k) + (n[1] % 2^k) * 2^(16 - k)>>

\* (x + y) & 0xffffffff
AddMask32(x, y) ==
  LET lo == x[2] + y[2]
  IN <<(x[1] + y[1] + lo \div 65536) % 65536, lo % 65536>>
\* (a + b + c + d + e) & 0xffffffff
Add5Mask32(a, b, c, d, e) ==
  LET lo == a[2] + b[2] + c[2] + d[2] + e[2]
  IN <<(a[1] + b[1] + c[1] + d[1] + e[1] + lo \div 65536) % 65536, lo % 65536>>

(***************************************************************************)
(* Byte strings.                                                           *)
(***************************************************************************)
Take(s, n) == SubSeq(s, 1, IF n < Len(s) THEN n ELSE Len(s))
Drop(s, n) == SubSeq(s, (IF n < Len(s) THEN n ELSE Len(s)) + 1, Len(s))
Zeros(n) == [i \in 1..n |-> 0]

\* struct.unpack(b'>I', b)[0] for a 4-byte b
unpack_I(b) == <<b[1] * 256 + b[2], b[3] * 256 + b[4]>>
\* struct.pack(b'>I', w) for 0 <= w < 2^32
pack_I(w) == <<w[1] \div 256, w[1] % 256, w[2] \div 256, w[2] % 256>>
\* n.to_bytes(k, "big"), which is struct.pack(b'>Q', n) for k = 8
RECURSIVE to_bytes(_, _)
to_bytes(n, k) == IF k = 0 THEN <<>> ELSE Append(to_bytes(n \div 256, k - 1), n % 256)
pack_Q(n) == to_bytes(n, 8)
\* int.from_bytes(b, "big"), for b of at most 5 bytes
RECURSIVE from_bytes_int(_)
from_bytes_int(b) == IF b = <<>> THEN 0
                     ELSE from_bytes_int(SubSeq(b, 1, Len(b) - 1)) * 256 + b[Len(b)]
int_from_bytes(b) ==
  IF Len(b) <= 2 THEN <<0, from_bytes_int(b)>>
  ELSE <<from_bytes_int(SubSeq(b, 1, Len(b) - 2)), from_bytes_int(SubSeq(b, Len(b) - 1, Len(b)))>>

(***************************************************************************)
(* class Sha1Hash                                                          *)
(***************************************************************************)
\* __init__: the initial digest variables, an empty tail, nothing processed
H_INIT == << <<26437, 8961>>, <<61389, 43913>>, <<39098, 56574>>,
             <<4146, 21622>>, <<50130, 57840>> >>
Sha1Hash == [h |-> H_INIT, unprocessed |-> <<>>, message_byte_length |-> 0]

\* left_rotate losing the bits shifted out at the top: (n << b) & 0xffffffff
left_rotate_shift(n, b) == Shl32(n, b)

left_rotate(n, b) == Mask32(Or(Shl32(n, b), Shr(n, 32 - b)))

\* the round constants 0x5A827999, 0x6ED9EBA1, 0x8F1BBCDC, 0xCA62C1D6
K(i) == IF i <= 19 THEN <<23170, 31129>>
        ELSE IF i <= 39 THEN <<28377, 60321>>
        ELSE IF i <= 59 THEN <<36635, 48348>>
        ELSE <<51810, 49622>>

F(i, b, c, d) == IF i <= 19 THEN Xor(d, And(b, Xor(c, d)))
                 ELSE IF i <= 39 THEN Xor(Xor(b, c), d)
                 ELSE IF i <= 59 THEN Or(Or(And(b, c), And(b, d)), And(c, d))
                 ELSE Xor(Xor(b, c), d)

\* w[16..79] from w[0..15] (w is 1-based here: w[i + 1] is the code's w[i])
RECURSIVE Extend(_)
Extend(w) ==
  IF Len(w) = 80 THEN w
  ELSE LET i == Len(w) + 1
       IN Extend(Append(w, left_rotate(Xor(Xor(w[i - 3], w[i - 8]), Xor(w[i - 14], w[i - 16])), 1)))

\* one round: a, b, c, d, e = ..., from the tuple s = <<a, b, c, d, e>>
Round(i, s, w) ==
  <<Add5Mask32(left_rotate(s[1], 5), F(i, s[2], s[3], s[4]), s[5], K(i), w[i + 1]),
    s[1], left_rotate(s[2], 30), s[3], s[4]>>

\* for i in range(80), from round i on; s always has 5 components, and the
\* test on its length makes each round's tuple a value before the next round
RECURSIVE Rounds(_, _, _)
Rounds(i, s, w) == IF i = 80 \/ Len(s) # 5 THEN s ELSE Rounds(i + 1, Round(i, s, w), w)

process_chunk(chunk, hh) ==
  LET w == Extend([i \in 1..16 |-> unpack_I(SubSeq(chunk, 4 * i - 3, 4 * i))])
      r == Rounds(0, hh, w)
  IN <<AddMask32(hh[1], r[1]), AddMask32(hh[2], r[2]), AddMask32(hh[3], r[3]),
       AddMask32(hh[4], r[4]), AddMask32(hh[5], r[5])>>

\* the loop written "while len(chunk) > 64": a full block is never consumed
RECURSIVE update_loop_gt(_, _, _, _)
update_loop_gt(self, chunk, rest, n) ==
  IF Len(chunk) > 64
  THEN update_loop_gt([self EXCEPT !.h = process_chunk(chunk, self.h),
                                   !.message_byte_length = @ + 64],
                      Take(rest, 64), Drop(rest, 64), n + 1)
  ELSE [self |-> [self EXCEPT !.unprocessed = chunk], calls |-> n]

\* the while loop of update: chunk is the block at hand, rest what arg.read
\* has not returned yet, n the number of _process_chunk calls made so far
RECURSIVE update_loop(_, _, _, _)
update_loop(self, chunk, rest, n) ==
  IF Len(chunk) = 64
  THEN update_loop([self EXCEPT !.h = process_chunk(chunk, self.h),
                                !.message_byte_length = @ + 64],
                   Take(rest, 64), Drop(rest, 64), n + 1)
  ELSE [self |-> [self EXCEPT !.unprocessed = chunk], calls |-> n]

\* update reading arg.read(64) first, whatever the length of the tail
update_run_read64(self, arg) ==
  IF Len(self.unprocessed \o Take(arg, 64)) <= 64
  THEN update_loop(self, self.unprocessed \o Take(arg, 64), Drop(arg, 64), 0)
  ELSE [self |-> [self EXCEPT !.unprocessed = self.unprocessed \o Take(arg, 64)], calls |-> 0]

update_run(self, arg) ==
  LET first == 64 - Len(self.unprocessed)
  IN update_loop(self, self.unprocessed \o Take(arg, first), Drop(arg, first), 0)

update(self, arg) == update_run(self, arg).self

\* the padding with the bit length of the processed blocks only
padded_message_no_tail(self) ==
  LET message_byte_length == self.message_byte_length + Len(self.unprocessed)
  IN self.unprocessed \o <<128>>
       \o Zeros((56 - ((message_byte_length + 1) % 64)) % 64)
       \o pack_Q(self.message_byte_length * 8)

\* the message _produce_digest has built when it reaches "Process the final chunk"
padded_message(self) ==
  LET message_byte_length == self.message_byte_length + Len(self.unprocessed)
  IN self.unprocessed \o <<128>>
       \o Zeros((56 - ((message_byte_length + 1) % 64)) % 64)
       \o pack_Q(message_byte_length * 8)

produce_digest(self) ==
  LET message == padded_message(self)
      hh == process_chunk(SubSeq(message, 1, 64), self.h)
  IN IF Len(message) = 64 THEN hh
     ELSE process_chunk(SubSeq(message, 65, Len(message)), hh)

digest(self) ==
  LET d == produce_digest(self)
  IN pack_I(d[1]) \o pack_I(d[2]) \o pack_I(d[3]) \o pack_I(d[4]) \o pack_I(d[5])

HexChars == <<"0", "1", "2", "3", "4", "5", "6", "7", "8", "9", "a", "b", "c", "d", "e", "f">>
\* the lowercase hex digits of n, zero-padded to at least width digits
RECURSIVE hex(_, _)
hex(n, width) == IF n = 0 /\ width <= 0 THEN <<>>
                 ELSE Append(hex(n \div 16, width - 1), HexChars[(n % 16) + 1])
\* '%08x' % w
fmt_08x(w) == hex(w[1], 4) \o hex(w[2], 4)

hexdigest(self) ==
  LET d == produce_digest(self)
  IN fmt_08x(d[1]) \o fmt_08x(d[2]) \o fmt_08x(d[3]) \o fmt_08x(d[4]) \o fmt_08x(d[5])

\* the bytes s in reverse order
Reverse(s) == [i \in 1..Len(s) |-> s[Len(s) + 1 - i]]
\* set_registers reading its arguments little-endian
set_registers_little(self, h0, h1, h2, h3, h4) ==
  [self EXCEPT !.h = <<int_from_bytes(Reverse(h0)), int_from_bytes(Reverse(h1)),
                       int_from_bytes(Reverse(h2)), int_from_bytes(Reverse(h3)),
                       int_from_bytes(Reverse(h4))>>]
\* set_registers starting the engine over: tail and byte count reset
set_registers_reinit(self, h0, h1, h2, h3, h4) ==
  [h |-> <<int_from_bytes(h0), int_from_bytes(h1), int_from_bytes(h2),
           int_from_bytes(h3), int_from_bytes(h4)>>,
   unprocessed |-> <<>>, message_byte_length |-> 0]

set_registers(self, h0, h1, h2, h3, h4) ==
  [self EXCEPT !.h = <<int_from_bytes(h0), int_from_bytes(h1), int_from_bytes(h2),
                       int_from_bytes(h3), int_from_bytes(h4)>>]

\* def sha1(data=b'')
sha1(data) == hexdigest(update(Sha1Hash, data))


(***************************************************************************)
(* State.  h, unprocessed and message_byte_length are the fields _h,       *)
(* _unprocessed and _message_byte_length of one Sha1Hash instance.  The    *)
(* other engine variables record its history: fed is all data passed to    *)
(* update since construction, ret the last call (its name and the value a   *)
(* digest call returned), raised the exception it ended in ("none": it     *)
(* returned), padded the padded message that call built, chunks the        *)
(* number of _process_chunk calls update has made, inj the last            *)
(* set_registers call (empty: none yet) with the engine's tail length and  *)
(* byte count at that moment.  key is the module's global; issued the      *)
(* <<message, tag>> pairs HMAC_SHA1 has returned, verdict the last         *)
(* check_mac call.  pc is the position of the module-level caller (main, or  *)
(* a caller of sha1), msg .. printed its locals.                           *)
(***************************************************************************)
VARIABLES h, unprocessed, message_byte_length, fed, ret, raised, padded, chunks, inj,
          key, issued, verdict,
          pc, msg, mac, index, shift, new_byte, new_msg, printed

engine == <<h, unprocessed, message_byte_length>>
history == <<fed, ret, raised, padded, chunks, inj>>
wrapper == <<key, issued, verdict>>
driver == <<pc, msg, mac, index, shift, new_byte, new_msg, printed>>
vars == <<engine, history, wrapper, driver>>

Self == [h |-> h, unprocessed |-> unprocessed, message_byte_length |-> message_byte_length]

(***************************************************************************)
(* Inputs.                                                                 *)
(***************************************************************************)
\* The data an engine is fed is cut from one fixed byte stream whose bytes
\* differ from position to position; a call passes the next n bytes of it.
StreamByte(i) == (i * 37 + 11) % 256
PieceLens == {0, 55, 56, 64, 73}
Piece(from, n) == [i \in 1..n |-> StreamByte(from + i)]

\* Prefix messages whose digest a caller injects: one that pads to one block
\* and one that pads to two.
Prefix(n) == [i \in 1..n |-> (i * 29 + 5) % 256]
Prefixes == {Prefix(19), Prefix(60)}
\* hash(p) cut into the five 4-byte big-endian words set_registers takes
RegBytes(p) ==
  LET d == digest(update(Sha1Hash, p))
  IN <<SubSeq(d, 1, 4), SubSeq(d, 5, 8), SubSeq(d, 9, 12), SubSeq(d, 13, 16), SubSeq(d, 17, 20)>>
\* arguments that are not all 4 bytes long: a 5-byte h0 and a 3-byte h1
WrongLengthArgs == << <<1, 35, 69, 103, 137>>, <<239, 205, 171>>,
                      <<152, 186, 220, 254>>, <<16, 50, 84, 118>>, <<195, 210, 225, 240>> >>
RegisterArgs == {RegBytes(p) : p \in Prefixes} \cup {WrongLengthArgs}

(***************************************************************************)
(* The engine's specification: one Sha1Hash instance and its callers.      *)
(***************************************************************************)
WrapperIdle == key = <<>> /\ issued = {} /\ verdict = <<>>
DriverLocals == /\ msg = <<>> /\ mac = <<>> /\ index = 0 /\ shift = 0 /\ new_byte = 0
                /\ new_msg = <<>> /\ printed = ""
DriverIdle == pc = "idle" /\ DriverLocals

EngineInit ==
  /\ h = Sha1Hash.h
  /\ unprocessed = Sha1Hash.unprocessed
  /\ message_byte_length = Sha1Hash.message_byte_length
  /\ fed = <<>>
  /\ ret = [op |-> "__init__", val |-> <<>>]
  /\ raised = "none"
  /\ padded = <<>>
  /\ chunks = 0
  /\ inj = <<>>

Init == EngineInit /\ WrapperIdle /\ DriverIdle

Update(n) ==
  /\ Len(fed) + n <= MaxFed
  /\ LET arg == Piece(Len(fed), n)
         r == update_run(Self, arg)
     IN /\ h' = r.self.h
        /\ unprocessed' = r.self.unprocessed
        /\ message_byte_length' = r.self.message_byte_length
        /\ chunks' = chunks + r.calls
        /\ fed' = fed \o arg
        /\ ret' = [op |-> "update", val |-> <<>>]
  /\ raised' = "none"
  /\ padded' = <<>>
  /\ UNCHANGED <<inj, wrapper, driver>>

\* digest storing the finalized registers back into the engine
DigestFolds ==
  /\ ret' = [op |-> "digest", val |-> digest(Self)]
  /\ padded' = padded_message(Self)
  /\ raised' = "none"
  /\ h' = produce_digest(Self)
  /\ UNCHANGED <<unprocessed, message_byte_length, fed, chunks, inj, wrapper, driver>>

Digest ==
  /\ ret' = [op |-> "digest", val |-> digest(Self)]
  /\ padded' = padded_message(Self)
  /\ raised' = "none"
  /\ UNCHANGED <<engine, fed, chunks, inj, wrapper, driver>>

HexDigest ==
  /\ ret' = [op |-> "hexdigest", val |-> hexdigest(Self)]
  /\ padded' = padded_message(Self)
  /\ raised' = "none"
  /\ UNCHANGED <<engine, fed, chunks, inj, wrapper, driver>>

SetRegisters(v) ==
  /\ LET r == set_registers(Self, v[1], v[2], v[3], v[4], v[5])
     IN /\ h' = r.h
        /\ unprocessed' = r.unprocessed
        /\ message_byte_length' = r.message_byte_length
  /\ inj' = <<[at |-> Len(fed), tail |-> Len(unprocessed),
               count |-> message_byte_length, args |-> v]>>
  /\ ret' = [op |-> "set_registers", val |-> <<>>]
  /\ raised' = "none"
  /\ padded' = <<>>
  /\ UNCHANGED <<fed, chunks, wrapper, driver>>

Next ==
  \/ \E n \in PieceLens : Update(n)
  \/ Digest
  \/ HexDigest
  \/ \E v \in RegisterArgs : SetRegisters(v)

Spec == Init /\ [][Next]_vars


(***************************************************************************)
(* sha1(data) on its own: a caller passes one byte string.                 *)
(***************************************************************************)
Alphabet == {97, 98, 99}
RECURSIVE Strings(_)
Strings(n) == IF n = 0 THEN {<<>>}
              ELSE Strings(n - 1) \cup {Append(s, c) : s \in {t \in Strings(n - 1) : Len(t) = n - 1}, c \in Alphabet}
Inputs == Strings(MaxDataLen)

Sha1Init ==
  /\ EngineInit /\ WrapperIdle
  /\ pc = "call" /\ msg \in Inputs /\ mac = <<>> /\ index = 0 /\ shift = 0 /\ new_byte = 0
  /\ new_msg = <<>> /\ printed = ""

Sha1Call ==
  /\ pc = "call"
  /\ ret' = [op |-> "sha1", val |-> sha1(msg)]
  /\ pc' = "return"
  /\ UNCHANGED <<engine, fed, raised, padded, chunks, inj, wrapper,
                 msg, mac, index, shift, new_byte, new_msg, printed>>

SpecSha1 == Sha1Init /\ [][Sha1Call]_vars

(***************************************************************************)
(* The keyed MAC: key, HMAC_SHA1 and check_mac.                            *)
(***************************************************************************)
\* key = rand_bytes(16): two of the values it can return
Keys == {[i \in 1..16 |-> (i * 17) % 256], [i \in 1..16 |-> (255 - i * 13) % 256]}
Messages == {<<>>, <<97, 98, 99>>, [i \in 1..50 |-> (i * 7 + 3) % 256]}
\* a tag no HMAC_SHA1 call of these runs returns: forty "0"
Forged == [i \in 1..40 |-> "0"]

\* the secret appended instead of prepended
HMAC_SHA1_suffix(message) == sha1(message \o key)

HMAC_SHA1(message) == sha1(key \o message)
check_mac(message, tag) == HMAC_SHA1(message) = tag

MacInit == EngineInit /\ DriverIdle /\ key \in Keys /\ issued = {} /\ verdict = <<>>

CallHMAC_SHA1(m) ==
  /\ issued' = issued \cup {<<m, HMAC_SHA1(m)>>}
  /\ UNCHANGED <<engine, history, key, verdict, driver>>

CallCheckMac(m, t) ==
  /\ verdict' = <<[message |-> m, mac |-> t, ok |-> check_mac(m, t)]>>
  /\ UNCHANGED <<engine, history, key, issued, driver>>

MacNext ==
  \/ \E m \in Messages : CallHMAC_SHA1(m)
  \/ \E m \in Messages : \E t \in {e[2] : e \in issued} \cup {Forged} : CallCheckMac(m, t)

SpecMac == MacInit /\ [][MacNext]_vars

(***************************************************************************)
(* main()                                                                  *)
(***************************************************************************)
\* random_string(lenmsg).encode('utf-8'): lenmsg characters of this alphabet
Letters == {97, 90}
RECURSIVE random_string(_)
random_string(n) == IF n = 0 THEN {<<>>}
                    ELSE {Append(s, c) : s \in random_string(n - 1), c \in Letters}

MainInit ==
  /\ EngineInit /\ key \in Keys /\ issued = {} /\ verdict = <<>>
  /\ pc = "start" /\ DriverLocals

\* lenmsg = random.randint(1, 100); msg = random_string(lenmsg).encode('utf-8')
MainMsg ==
  /\ pc = "start"
  /\ \E lenmsg \in 1..MaxLenMsg : msg' \in random_string(lenmsg)
  /\ pc' = "mac"
  /\ UNCHANGED <<engine, history, wrapper, mac, index, shift, new_byte, new_msg, printed>>

\* mac = HMAC_SHA1(msg)
MainMac ==
  /\ pc = "mac"
  /\ mac' = HMAC_SHA1(msg)
  /\ pc' = "flip"
  /\ UNCHANGED <<engine, history, wrapper, msg, index, shift, new_byte, new_msg, printed>>

\* index = random.randint(0, lenmsg - 1) ... new_msg += msg[index+1:];
\* bytes([new_byte]) raises ValueError unless 0 <= new_byte < 256
MainFlip(i, s) ==
  /\ pc = "flip"
  /\ index' = i
  /\ shift' = s
  /\ LET b == Xor16(msg[i + 1], 2^s)
     IN /\ new_byte' = b
        /\ IF b \in 0..255
           THEN /\ new_msg' = SubSeq(msg, 1, i) \o <<b>> \o SubSeq(msg, i + 2, Len(msg))
                /\ pc' = "check"
                /\ raised' = "none"
           ELSE /\ new_msg' = SubSeq(msg, 1, i)
                /\ pc' = "raised"
                /\ raised' = "ValueError"
  /\ UNCHANGED <<engine, fed, ret, padded, chunks, inj, wrapper, msg, mac, printed>>

\* if check_mac(new_msg, mac): print(...) else: print(...)
MainCheck ==
  /\ pc = "check"
  /\ printed' = IF check_mac(new_msg, mac) THEN "mac bypassed! (bad)"
                ELSE "mac check failed (good)"
  /\ pc' = "done"
  /\ UNCHANGED <<engine, history, wrapper, msg, mac, index, shift, new_byte, new_msg>>

MainNext ==
  \/ MainMsg
  \/ MainMac
  \/ \E i \in 0..(Len(msg) - 1) : \E s \in 0..8 : MainFlip(i, s)
  \/ MainCheck

SpecMain == MainInit /\ [][MainNext]_vars


(***************************************************************************)
(* Properties of the engine (specification Spec).                          *)
(***************************************************************************)
FinalizeOps == {"digest", "hexdigest"}

\* C1 (streaming equivalence): as long as set_registers has not been called,
\* the engine fed its data in pieces has the registers, the buffered tail and
\* the byte count of a fresh engine fed the same data in a single update call,
\* and the digest a finalize call returned is the one that engine returns.
StreamingEquivalence ==
  inj = <<>> =>
    LET one == update(Sha1Hash, fed)
    IN /\ h = one.h
       /\ unprocessed = one.unprocessed
       /\ message_byte_length = one.message_byte_length
       /\ ret.op = "digest" => ret.val = digest(one)
       /\ ret.op = "hexdigest" => ret.val = hexdigest(one)

\* 111 bytes are fed as 55 + 56 or 56 + 55 (plus empty pieces): the second
\* piece straddles the first block boundary.
StreamingWitness == inj = <<>> /\ Len(fed) = 111 /\ chunks = 1 /\ ret.op = "digest"

\* the bytes b written as two lowercase hex digits each
RECURSIVE BytesHex(_)
BytesHex(b) == IF b = <<>> THEN <<>>
               ELSE <<HexChars[(b[1] \div 16) + 1], HexChars[(b[1] % 16) + 1]>> \o BytesHex(Tail(b))

\* C2 (finalize is pure): a digest or hexdigest call leaves registers, tail
\* and byte count as they were, a finalize call directly after one of the
\* same kind returns the same value, and with no register injection each
\* returned value is the digest of the concatenation of all data passed to
\* update before it.
FinalizeIsPure ==
  /\ [][ret'.op \in FinalizeOps =>
          /\ h' = h
          /\ unprocessed' = unprocessed
          /\ message_byte_length' = message_byte_length
          /\ (ret.op = ret'.op => ret'.val = ret.val)]_vars
  /\ [](inj = <<>> /\ ret.op = "hexdigest" => ret.val = sha1(fed))
  /\ [](inj = <<>> /\ ret.op = "digest" => BytesHex(ret.val) = sha1(fed))

\* a hexdigest returned by an engine fed 119 bytes in two pieces: one block
\* folded, a tail of 55
FinalizeWitness ==
  inj = <<>> /\ ret.op = "hexdigest" /\ Len(fed) = 119 /\ Len(unprocessed) = 55

\* C3 (state invariant): the tail is shorter than 64 bytes and the byte count
\* is a multiple of 64 in every state; the count never decreases, and it
\* grows by exactly 64 per application of the compression function made by
\* update (chunks counts them), so it is always 64 times their number.
EngineInvariant ==
  /\ [](/\ Len(unprocessed) < 64
        /\ message_byte_length % 64 = 0
        /\ message_byte_length = 64 * chunks)
  /\ [][/\ message_byte_length' >= message_byte_length
        /\ message_byte_length' - message_byte_length = 64 * (chunks' - chunks)]_vars

\* two blocks folded, by an engine on which all four operations have acted
EngineInvariantWitness ==
  inj # <<>> /\ message_byte_length = 128 /\ chunks = 2 /\ ret.op = "digest"

\* p followed by the SHA-1 padding of p
GluePadded(p) ==
  LET e == update(Sha1Hash, p)
  IN SubSeq(p, 1, e.message_byte_length) \o padded_message(e)

\* the data fed since the last set_registers call
Suffix == SubSeq(fed, inj[1].at + 1, Len(fed))

\* C5 (length extension): when the last set_registers call passed the five
\* words of hash(p) to an engine whose tail was empty and whose byte count
\* was len(p || padding(p)), a digest taken after feeding a suffix s equals
\* the digest of a fresh engine fed p || padding(p) || s in one pass.
LengthExtension ==
  \A p \in Prefixes :
    (/\ inj # <<>>
     /\ ret.op = "digest"
     /\ inj[1].args = RegBytes(p)
     /\ inj[1].tail = 0
     /\ inj[1].count = Len(GluePadded(p)))
    => ret.val = digest(update(Sha1Hash, GluePadded(p) \o Suffix))

LengthExtensionWitness ==
  /\ inj # <<>>
  /\ ret.op = "digest"
  /\ inj[1].args = RegBytes(Prefix(19))
  /\ inj[1].tail = 0
  /\ inj[1].count = 64
  /\ Len(Suffix) = 56

WrongLength(v) == \E i \in 1..5 : Len(v[i]) # 4

\* C6 (wrong-length register values are rejected): a set_registers call with
\* an argument that is not 4 bytes long ends in InvalidInputLength and leaves
\* the registers as they were, and no register is ever outside 0 .. 2^32-1.
WrongLengthRejected ==
  /\ [][(ret'.op = "set_registers" /\ WrongLength(inj'[1].args)) =>
          (raised' = "InvalidInputLength" /\ h' = h)]_vars
  /\ [](\A i \in 1..5 : h[i][1] < 65536)

\* C8 (frame of set_registers): a call with five 4-byte values returns
\* normally, makes the registers the big-endian values of its arguments in
\* order, and leaves the tail and the byte count as they were.
SetRegistersFrame ==
  [][(ret'.op = "set_registers" /\ ~WrongLength(inj'[1].args)) =>
       /\ raised' = "none"
       /\ \A i \in 1..5 :
            LET a == inj'[1].args[i]
            IN h'[i] = <<a[1] * 256 + a[2], a[3] * 256 + a[4]>>
       /\ unprocessed' = unprocessed
       /\ message_byte_length' = message_byte_length]_vars

SetRegistersWitness ==
  /\ ret.op = "set_registers"
  /\ ~WrongLength(inj[1].args)
  /\ Len(unprocessed) = 55
  /\ message_byte_length = 64

\* C9 (padding at finalize): the message a finalize call builds is the tail,
\* one 0x80 byte, zero bytes, then the 8-byte big-endian bit length of all the
\* data counted and buffered; it is 64 bytes long for a tail of at most 55
\* bytes and 128 bytes long for a longer one, and the value returned is its
\* blocks compressed in order from the current registers.
PaddingAtFinalize ==
  ret.op \in FinalizeOps =>
    LET L == Len(unprocessed)
        M == Len(padded)
        h1 == process_chunk(SubSeq(padded, 1, 64), h)
        h2 == IF M = 64 THEN h1 ELSE process_chunk(SubSeq(padded, 65, 128), h1)
    IN /\ M = (IF L <= 55 THEN 64 ELSE 128)
       /\ SubSeq(padded, 1, L) = unprocessed
       /\ padded[L + 1] = 128
       /\ \A i \in (L + 2)..(M - 8) : padded[i] = 0
       /\ SubSeq(padded, M - 7, M - 4) = <<0, 0, 0, 0>>
       /\ from_bytes_int(SubSeq(padded, M - 3, M)) = (message_byte_length + L) * 8
       /\ ret.op = "digest" =>
            ret.val = pack_I(h2[1]) \o pack_I(h2[2]) \o pack_I(h2[3])
                        \o pack_I(h2[4]) \o pack_I(h2[5])

\* a tail of 56 bytes after one folded block: the padding spills into a second block
PaddingWitness ==
  ret.op = "digest" /\ Len(unprocessed) = 56 /\ message_byte_length = 64 /\ Len(padded) = 128

(***************************************************************************)
(* Properties of sha1 (specification SpecSha1).                            *)
(***************************************************************************)
SHA1_EMPTY ==
  <<"d", "a", "3", "9", "a", "3", "e", "e", "5", "e",
    "6", "b", "4", "b", "0", "d", "3", "2", "5", "5",
    "b", "f", "e", "f", "9", "5", "6", "0", "1", "8",
    "9", "0", "a", "f", "d", "8", "0", "7", "0", "9">>
SHA1_ABC ==
  <<"a", "9", "9", "9", "3", "e", "3", "6", "4", "7",
    "0", "6", "8", "1", "6", "a", "b", "a", "3", "e",
    "2", "5", "7", "1", "7", "8", "5", "0", "c", "2",
    "6", "c", "9", "c", "d", "0", "d", "8", "9", "d">>

\* C7 (known vectors): sha1 of the empty byte string and of "abc" are the
\* FIPS 180-1 digests, as 40 lowercase hex characters.
KnownVectors ==
  pc = "return" =>
    /\ Len(ret.val) = 40
    /\ msg = <<>> => ret.val = SHA1_EMPTY
    /\ msg = <<97, 98, 99>> => ret.val = SHA1_ABC

KnownVectorsWitness == pc = "return" /\ msg = <<97, 98, 99>> /\ ret.op = "sha1"

(***************************************************************************)
(* Properties of the MAC (specification SpecMac).                          *)
(***************************************************************************)
\* C4 (MAC correctness with one fixed key): the key is 16 bytes and never
\* changes; check_mac(m, t) returned true exactly when t is the hex digest of
\* a fresh engine fed the key and then m; and a tag HMAC_SHA1 returned for m
\* verifies against m whatever MAC operations happened in between.
MacCorrect ==
  /\ [](Len(key) = 16)
  /\ [][key' = key]_vars
  /\ [](verdict # <<>> =>
          LET v == verdict[1]
          IN /\ v.ok <=> (v.mac = hexdigest(update(update(Sha1Hash, key), v.message)))
             /\ <<v.message, v.mac>> \in issued => v.ok)

\* a tag verified after the tags of the two other messages were computed
MacWitness ==
  /\ verdict # <<>>
  /\ verdict[1].ok
  /\ Len(verdict[1].message) = 50
  /\ Cardinality(issued) = 3

(***************************************************************************)
(* Properties of main (specification SpecMain).                            *)
(***************************************************************************)
\* the number of 1 bits of n
RECURSIVE PopCount(_)
PopCount(n) == IF n = 0 THEN 0 ELSE (n % 2) + PopCount(n \div 2)

\* C10 (the driver's bit flip): once main has drawn index and bit position,
\* the replacement byte is in 0..255 and differs from the original byte in
\* exactly one bit, the modified message has the original's length and
\* differs from it in exactly that byte, no exception has ended main, and
\* when main is done it has printed one of check_mac's two outcomes.
BitFlipReachesCheck ==
  /\ pc \in {"check", "raised", "done"} =>
       /\ new_byte \in 0..255
       /\ PopCount(Xor16(new_byte, msg[index + 1])) = 1
       /\ Len(new_msg) = Len(msg)
       /\ {i \in 1..Len(msg) : new_msg[i] # msg[i]} = {index + 1}
       /\ raised = "none"
  /\ pc = "done" => printed \in {"mac bypassed! (bad)", "mac check failed (good)"}

=============================================================================
